---- MODULE Spec2Model ----
(***************************************************************************)
(* BaseClient of the Milvus node SDK: configuration resolution and TLS     *)
(* mode selection in the constructor, the compatibility gate               *)
(* (checkCompatibility), and the connection state machine and channel pool *)
(* the gate and the RPC wrappers rely on.                                  *)
(*                                                                         *)
(* JavaScript values are encoded as follows.  A string that is matched by  *)
(* prefix (the address) is a sequence of one-character strings.  An        *)
(* optional string is a TLA+ string, Undef standing for undefined and ""   *)
(* for the empty string.  An optional boolean is one of "undefined",       *)
(* "false", "true".                                                        *)
(***************************************************************************)
EXTENDS Naturals, Integers, Sequences, FiniteSets, TLC

VARIABLES
    client,          \* the BaseClient under construction / constructed
    connectStatus,   \* BaseClient.connectStatus
    connectPromise,  \* BaseClient.connectPromise: id of the promise it refers to
    promises,        \* promise id -> "unused" | "pending" | "fulfilled" | "rejected"
    settled,         \* promise id -> status the handshake behind it settled to
    handshakes,      \* number of handshake RPCs issued so far
    deadlinePassed,  \* the latest handshake has reached its connect deadline
    gate,            \* the current checkCompatibility call and how it ended
    joiners,         \* the callers of ensureConnected and what they observed
    pool,            \* the channel pool
    rpc,             \* the RPC calls that use the pool
    broken           \* the channels released with valid = false so far

vars == <<client, connectStatus, connectPromise, promises, settled, handshakes,
          deadlinePassed, gate, joiners, pool, rpc, broken>>

connVars == <<connectStatus, connectPromise, promises, settled, handshakes,
              deadlinePassed>>

(***************************************************************************)
(* Bounds of the model.                                                    *)
(***************************************************************************)
MaxAttempts == 2
NumJoiners == 2
NumRpcCallers == 2
MaxChannels == 2
MaxCreated == 3

(***************************************************************************)
(* JavaScript values.                                                      *)
(***************************************************************************)
Undef == "undefined"

\* JS truthiness of an optional string: undefined and '' are falsy.
TruthyStr(s) == s # Undef /\ s # ""

\* JS truthiness of an optional boolean.
TruthyBool(b) == b = "true"

\* String.prototype.startsWith on character sequences.
StartsWith(s, prefix) ==
    /\ Len(s) >= Len(prefix)
    /\ SubSeq(s, 1, Len(prefix)) = prefix

HttpsPrefix == <<"h", "t", "t", "p", "s", ":", "/", "/">>

\* An address: def = FALSE is undefined, otherwise s holds its characters.
\* JS truthiness: undefined and '' are falsy.
TruthyAddr(a) == a.def /\ Len(a.s) > 0

NoAddress == [def |-> FALSE, s |-> <<>>]
Addr(chars) == [def |-> TRUE, s |-> chars]

(***************************************************************************)
(* Enumerations imported from the package index.                           *)
(***************************************************************************)
TLS_DISABLED == "DISABLED"
TLS_ONE_WAY == "ONE_WAY"
TLS_TWO_WAY == "TWO_WAY"

NOT_CONNECTED == "NOT_CONNECTED"
CONNECTING == "CONNECTING"
CONNECTED == "CONNECTED"
UNIMPLEMENTED == "UNIMPLEMENTED"
FAILED == "FAILED"

MILVUS_ADDRESS_IS_REQUIRED == "MILVUS_ADDRESS_IS_REQUIRED"

\* The default connect timeout, in milliseconds.
DEFAULT_CONNECT_TIMEOUT == 15000

DefaultIncompatibleMessage ==
    "This version of sdk is incompatible with the server, please downgrade your sdk or upgrade your server."

(***************************************************************************)
(* Files the constructor may read.                                         *)
(***************************************************************************)
milvusProtoPath == "proto/milvus.proto"
schemaProtoPath == "proto/schema.proto"

Paths == {milvusProtoPath, schemaProtoPath, "custom/schema.proto",
          "ca.pem", "key.pem", "chain.pem"}

\* A file system snapshot: every path is readable ("ok"), absent ("missing")
\* or, for a schema file, readable but without the two message types
\* ("notypes").
AllFilesOk == [p \in Paths |-> "ok"]

FsCases ==
    {AllFilesOk}
    \cup {[AllFilesOk EXCEPT ![p] = "missing"] : p \in Paths}
    \cup {[AllFilesOk EXCEPT ![p] = "notypes"] :
            p \in {schemaProtoPath, "custom/schema.proto"}}

(***************************************************************************)
(* Configurations.                                                         *)
(***************************************************************************)
NoTls == [given |-> FALSE, rootCertPath |-> Undef, privateKeyPath |-> Undef,
          certChainPath |-> Undef]
Tls(root, key, chain) ==
    [given |-> TRUE, rootCertPath |-> root, privateKeyPath |-> key,
     certChainPath |-> chain]

NoProtoFilePath == [given |-> FALSE, milvus |-> Undef, schema |-> Undef]

TimeoutUndefined == [kind |-> "undefined", num |-> 0, unit |-> ""]
TimeoutNumber(ms) == [kind |-> "number", num |-> ms, unit |-> ""]
TimeoutToken(n, u) == [kind |-> "string", num |-> n, unit |-> u]

Addresses ==
    {NoAddress,
     Addr(<<>>),
     Addr(<<"h", ":", "1">>),
     Addr(<<"h", "t", "t", "p", ":", "/", "/", "h">>),
     Addr(<<"h", "t", "t", "p", "s", ":", "/", "/", "h">>),
     Addr(<<"x", "h", "t", "t", "p", "s", ":", "/", "/">>)}

SslFlags == {"undefined", "false", "true"}

TlsBlocks ==
    {NoTls,
     Tls(Undef, Undef, Undef),
     Tls(Undef, "key.pem", Undef),
     Tls("", Undef, Undef),
     Tls("ca.pem", Undef, Undef),
     Tls("ca.pem", "key.pem", "chain.pem")}

ProtoFilePaths ==
    {NoProtoFilePath,
     [given |-> TRUE, milvus |-> Undef, schema |-> "custom/schema.proto"]}

Timeouts ==
    {TimeoutUndefined, TimeoutNumber(0), TimeoutNumber(2000),
     TimeoutToken(1, "s"), TimeoutToken(1, "x")}

\* Configuration objects handed to the constructor.
Configs ==
    [address : Addresses, ssl : SslFlags, tls : TlsBlocks,
     protoFilePath : ProtoFilePaths, timeout : Timeouts]

\* The positional form new BaseClient(address, ssl, ...) builds this object.
PositionalConfig(address, ssl) ==
    [address |-> address, ssl |-> ssl, tls |-> NoTls,
     protoFilePath |-> NoProtoFilePath, timeout |-> TimeoutUndefined]

(***************************************************************************)
(* Pure parts of the constructor.                                          *)
(***************************************************************************)

\* parseTimeToken: "<n>s", "<n>m", "<n>h" to milliseconds; a token with an
\* unknown unit throws, which is returned here as -1.
parseTimeToken(tok) ==
    CASE tok.unit = "s" -> tok.num * 1000
      [] tok.unit = "m" -> tok.num * 60 * 1000
      [] tok.unit = "h" -> tok.num * 60 * 60 * 1000
      [] OTHER -> -1

\* TlsModeOf with the scheme and ssl flag taking precedence over the
\* root certificate.
TlsModeOf_SchemeFirst(cfg) ==
    IF StartsWith(cfg.address.s, HttpsPrefix) \/ TruthyBool(cfg.ssl)
    THEN TLS_ONE_WAY
    ELSE IF cfg.tls.given /\ TruthyStr(cfg.tls.rootCertPath)
         THEN TLS_TWO_WAY
         ELSE TLS_DISABLED

\* TlsModeOf asking for the private key as well as the root certificate.
TlsModeOf_NeedsKey(cfg) ==
    LET preliminary ==
            IF StartsWith(cfg.address.s, HttpsPrefix) \/ TruthyBool(cfg.ssl)
            THEN TLS_ONE_WAY
            ELSE TLS_DISABLED
    IN  IF cfg.tls.given /\ TruthyStr(cfg.tls.rootCertPath)
           /\ TruthyStr(cfg.tls.privateKeyPath)
        THEN TLS_TWO_WAY
        ELSE preliminary

\* Lines 128-137: the TLS mode of a configuration.
TlsModeOf(cfg) ==
    LET preliminary ==
            IF StartsWith(cfg.address.s, HttpsPrefix) \/ TruthyBool(cfg.ssl)
            THEN TLS_ONE_WAY
            ELSE TLS_DISABLED
    IN  IF cfg.tls.given /\ TruthyStr(cfg.tls.rootCertPath)
        THEN TLS_TWO_WAY
        ELSE preliminary

\* Lines 139-144: the two schema files to load.
ProtoFilePathOf(cfg) ==
    IF cfg.protoFilePath.given
    THEN [milvus |-> IF cfg.protoFilePath.milvus # Undef
                     THEN cfg.protoFilePath.milvus ELSE milvusProtoPath,
          schema |-> IF cfg.protoFilePath.schema # Undef
                     THEN cfg.protoFilePath.schema ELSE schemaProtoPath]
    ELSE [milvus |-> milvusProtoPath, schema |-> schemaProtoPath]

\* Lines 193-206: the certificate files read for two-way TLS, in order.
CertReads(cfg) ==
    LET one(p) == IF TruthyStr(p) THEN <<p>> ELSE <<>>
    IN  one(cfg.tls.rootCertPath) \o one(cfg.tls.privateKeyPath)
        \o one(cfg.tls.certChainPath)

\* The reads of a sequence up to and including the first one that fails.
RECURSIVE ReadsUntilFailure(_, _)
ReadsUntilFailure(reads, fs) ==
    IF reads = <<>> THEN <<>>
    ELSE IF fs[Head(reads)] = "missing" THEN <<Head(reads)>>
    ELSE <<Head(reads)>> \o ReadsUntilFailure(Tail(reads), fs)

\* Lines 177-220: the credentials for a TLS mode.
CredsOf(mode) ==
    CASE mode = TLS_ONE_WAY -> "ssl"
      [] mode = TLS_TWO_WAY -> "ssl-with-certificates"
      [] OTHER -> "insecure"

\* TimeoutOf without the fallback to the default: an absent timeout stays
\* no number.
TimeoutOf_NoDefault(cfg) ==
    IF cfg.timeout.kind = "string"
    THEN parseTimeToken(cfg.timeout)
    ELSE IF cfg.timeout.kind = "number"
         THEN cfg.timeout.num
         ELSE -1

\* Lines 222-226: the connect timeout in milliseconds (-1: no number results).
TimeoutOf(cfg) ==
    IF cfg.timeout.kind = "string"
    THEN parseTimeToken(cfg.timeout)
    ELSE IF cfg.timeout.kind = "number" /\ cfg.timeout.num # 0
         THEN cfg.timeout.num
         ELSE DEFAULT_CONNECT_TIMEOUT

(***************************************************************************)
(* The constructor.                                                        *)
(***************************************************************************)
NoClient ==
    [state |-> "none", error |-> "", config |-> PositionalConfig(NoAddress, Undef),
     tlsMode |-> TLS_DISABLED, creds |-> "", timeout |-> DEFAULT_CONNECT_TIMEOUT,
     io |-> <<>>]

\* The constructor threw: no object results; io is what it had read by then.
Threw(cfg, err, io) ==
    [NoClient EXCEPT !.state = "threw", !.error = err, !.config = cfg, !.io = io]

\* AddressMissing testing for undefined only.
AddressMissing_UndefinedOnly(cfg) == ~cfg.address.def

\* Lines 111-114: the check that the address is set.
AddressMissing(cfg) == ~TruthyAddr(cfg.address)

\* Lines 96-227.
NewClient(cfg, fs) ==
    IF AddressMissing(cfg)
    THEN Threw(cfg, MILVUS_ADDRESS_IS_REQUIRED, <<>>)
    ELSE
    LET mode == TlsModeOf(cfg)
        proto == ProtoFilePathOf(cfg)
        protoReads == ReadsUntilFailure(<<proto.schema, proto.milvus>>, fs)
        certs == IF mode = TLS_TWO_WAY THEN CertReads(cfg) ELSE <<>>
        certReads == ReadsUntilFailure(certs, fs)
    IN  IF fs[protoReads[Len(protoReads)]] = "missing"
        THEN Threw(cfg, "ENOENT", protoReads)
        ELSE IF fs[proto.schema] = "notypes"
        THEN Threw(cfg, "no such type", protoReads)
        ELSE IF certReads # <<>> /\ fs[certReads[Len(certReads)]] = "missing"
        THEN Threw(cfg, "ENOENT", protoReads \o certReads)
        ELSE IF cfg.timeout.kind = "string" /\ parseTimeToken(cfg.timeout) < 0
        THEN Threw(cfg, "Invalid time token", protoReads \o certReads)
        ELSE [state |-> "ok", error |-> "", config |-> cfg, tlsMode |-> mode,
              creds |-> CredsOf(mode), timeout |-> TimeoutOf(cfg),
              io |-> protoReads \o certReads]

(***************************************************************************)
(* Initial state: nothing constructed; the field initialisers of lines     *)
(* 41-45 for the connection fields.                                        *)
(***************************************************************************)
PromiseIds == 0 .. MaxAttempts

\* Promise 0 is the Promise.resolve() of line 43.
InitPromises == [p \in PromiseIds |-> IF p = 0 THEN "fulfilled" ELSE "unused"]

IdleGate ==
    [pc |-> "idle", message |-> Undef, checker |-> FALSE, awaiting |-> 0,
     outcome |-> "none", error |-> "", checkerCalls |-> 0, status |-> NOT_CONNECTED]

Joiners == 1 .. NumJoiners

IdleJoiner == [pc |-> "idle", awaiting |-> 0, gen |-> 0, status |-> NOT_CONNECTED]

RpcCallers == 1 .. NumRpcCallers

IdleRpc == [pc |-> "idle", ch |-> 0, error |-> FALSE]

EmptyPool == [idle |-> {}, borrowed |-> {}, destroyed |-> {}, created |-> 0]

InitConn ==
    /\ connectStatus = NOT_CONNECTED
    /\ connectPromise = 0
    /\ promises = InitPromises
    /\ settled = [p \in PromiseIds |-> NOT_CONNECTED]
    /\ handshakes = 0
    /\ deadlinePassed = FALSE
    /\ gate = IdleGate
    /\ joiners = [j \in Joiners |-> IdleJoiner]

InitPool ==
    /\ pool = EmptyPool
    /\ rpc = [c \in RpcCallers |-> IdleRpc]
    /\ broken = {}

Init ==
    /\ client = NoClient
    /\ InitConn
    /\ InitPool

(***************************************************************************)
(* new BaseClient(config) and new BaseClient(address, ssl, ...).           *)
(***************************************************************************)
ConstructWithConfig(cfg, fs) ==
    /\ client.state = "none"
    /\ client' = NewClient(cfg, fs)
    /\ UNCHANGED <<connVars, gate, joiners, pool, rpc, broken>>

ConstructWithAddress(address, ssl, fs) ==
    /\ client.state = "none"
    /\ client' = NewClient(PositionalConfig(address, ssl), fs)
    /\ UNCHANGED <<connVars, gate, joiners, pool, rpc, broken>>

(***************************************************************************)
(* checkCompatibility, lines 237-256.  The call evaluates                  *)
(* this.connectPromise and suspends on that promise (line 241); it resumes *)
(* once the promise is settled and then reads this.connectStatus.          *)
(***************************************************************************)
Messages == {Undef, "", "custom message"}

GateCall(message, checker) ==
    /\ client.state = "ok"
    /\ gate.pc # "await"
    /\ gate' = [IdleGate EXCEPT !.pc = "await", !.message = message,
                                !.checker = checker, !.awaiting = connectPromise]
    /\ UNCHANGED <<client, connVars, joiners, pool, rpc, broken>>

\* GateOutcome throwing before it looks at the checker.
GateOutcome_ThrowsFirst(awaitedState, status, message, checker) ==
    IF awaitedState = "rejected"
    THEN [outcome |-> "connection failure", error |-> "connect failed",
          checkerCalls |-> 0]
    ELSE IF status = UNIMPLEMENTED
    THEN [outcome |-> "incompatible",
          error |-> IF TruthyStr(message) THEN message
                    ELSE DefaultIncompatibleMessage,
          checkerCalls |-> 0]
    ELSE [outcome |-> "returned", error |-> "", checkerCalls |-> 0]

\* GateOutcome treating every status but NOT_CONNECTED as incompatible.
GateOutcome_AnyStatus(awaitedState, status, message, checker) ==
    IF awaitedState = "rejected"
    THEN [outcome |-> "connection failure", error |-> "connect failed",
          checkerCalls |-> 0]
    ELSE IF status # NOT_CONNECTED
    THEN IF checker
         THEN [outcome |-> "checker result", error |-> "", checkerCalls |-> 1]
         ELSE [outcome |-> "incompatible",
               error |-> IF TruthyStr(message) THEN message
                         ELSE DefaultIncompatibleMessage,
               checkerCalls |-> 0]
    ELSE [outcome |-> "returned", error |-> "", checkerCalls |-> 0]

\* Lines 241-255: what the call does once the awaited promise has settled to
\* awaitedState, with this.connectStatus = status.
GateOutcome(awaitedState, status, message, checker) ==
    IF awaitedState = "rejected"
    THEN [outcome |-> "connection failure", error |-> "connect failed",
          checkerCalls |-> 0]
    ELSE IF status = UNIMPLEMENTED
    THEN IF checker
         THEN [outcome |-> "checker result", error |-> "", checkerCalls |-> 1]
         ELSE [outcome |-> "incompatible",
               error |-> IF TruthyStr(message) THEN message
                         ELSE DefaultIncompatibleMessage,
               checkerCalls |-> 0]
    ELSE [outcome |-> "returned", error |-> "", checkerCalls |-> 0]

\* An await that does not wait.
AwaitResumes_Always(p) == promises[p] # "unused"

\* Line 241: the await resumes only on a settled promise.
AwaitResumes(p) == promises[p] \in {"fulfilled", "rejected"}

GateResume ==
    /\ gate.pc = "await"
    /\ AwaitResumes(gate.awaiting)
    /\ LET o == GateOutcome(promises[gate.awaiting], connectStatus,
                            gate.message, gate.checker)
       IN  gate' = [gate EXCEPT !.pc = "done", !.outcome = o.outcome,
                                !.error = o.error,
                                !.checkerCalls = o.checkerCalls,
                                !.status = connectStatus]
    /\ UNCHANGED <<client, connVars, joiners, pool, rpc, broken>>

(***************************************************************************)
(* The connection state machine.                                           *)
(***************************************************************************)

\* The number of handshakes that have completed.
Completed == Cardinality({p \in PromiseIds : p >= 1 /\ AwaitResumes(p)})

\* StartsHandshake that does not join a handshake in flight.
StartsHandshake_NoJoin(status) == status \in {NOT_CONNECTED, CONNECTING, FAILED}

\* Whether a caller of ensureConnected starts a handshake of its own.
StartsHandshake(status) == status \in {NOT_CONNECTED, FAILED}

\* ensureConnected(): join the handshake in flight, or start one when none is
\* pending and the state is NotConnected or Failed, and await the handle.
EnsureConnected(j) ==
    /\ client.state = "ok"
    /\ joiners[j].pc # "await"
    /\ IF StartsHandshake(connectStatus)
       THEN /\ handshakes < MaxAttempts
            /\ handshakes' = handshakes + 1
            /\ promises' = [promises EXCEPT ![handshakes + 1] = "pending"]
            /\ connectPromise' = handshakes + 1
            /\ connectStatus' = CONNECTING
            /\ deadlinePassed' = FALSE
            /\ joiners' = [joiners EXCEPT ![j] =
                              [IdleJoiner EXCEPT !.pc = "await",
                                                 !.awaiting = handshakes + 1,
                                                 !.gen = Completed]]
            /\ UNCHANGED settled
       ELSE /\ joiners' = [joiners EXCEPT ![j] =
                              [IdleJoiner EXCEPT !.pc = "await",
                                                 !.awaiting = connectPromise,
                                                 !.gen = Completed]]
            /\ UNCHANGED connVars
    /\ UNCHANGED <<client, gate, pool, rpc, broken>>

\* The status a joined caller observes: what the handshake it awaited settled
\* to, or the current status when it awaited no handshake.
Observed(p) == IF p >= 1 THEN settled[p] ELSE connectStatus

JoinResume(j) ==
    /\ joiners[j].pc = "await"
    /\ AwaitResumes(joiners[j].awaiting)
    /\ joiners' = [joiners EXCEPT ![j].pc = "done",
                                  ![j].status = Observed(joiners[j].awaiting)]
    /\ UNCHANGED <<client, connVars, gate, pool, rpc, broken>>

\* The handshake in flight completes with `result`: the status is recorded,
\* the shared handle resolves (or fails) and is then cleared.
Settle(result) ==
    /\ connectStatus' = result
    /\ promises' = [promises EXCEPT ![connectPromise] =
                       IF result = FAILED THEN "rejected" ELSE "fulfilled"]
    /\ settled' = [settled EXCEPT ![connectPromise] = result]
    /\ connectPromise' = 0
    /\ UNCHANGED <<handshakes, deadlinePassed, client, gate, joiners, pool, rpc,
                   broken>>

\* The event loop runs the continuations of settled promises before it takes
\* the next I/O or timer event: no call is waiting on a settled promise.
MicrotasksDrained ==
    /\ ~(gate.pc = "await" /\ AwaitResumes(gate.awaiting))
    /\ \A j \in Joiners :
          ~(joiners[j].pc = "await" /\ AwaitResumes(joiners[j].awaiting))

\* The server answers the handshake before the deadline.
HandshakeResponds(result) ==
    /\ connectStatus = CONNECTING
    /\ ~deadlinePassed
    /\ MicrotasksDrained
    /\ Settle(result)

\* Whether a connect timeout arms a deadline: it does when it is a number of
\* milliseconds.
DeadlineArmed(timeout) == timeout >= 0

\* The connect timeout elapses while the handshake is in flight.
DeadlineReached ==
    /\ connectStatus = CONNECTING
    /\ ~deadlinePassed
    /\ MicrotasksDrained
    /\ DeadlineArmed(client.timeout)
    /\ deadlinePassed' = TRUE
    /\ UNCHANGED <<client, connectStatus, connectPromise, promises, settled,
                   handshakes, gate, joiners, pool, rpc, broken>>

\* A handshake that has reached its deadline is marked Failed.
HandshakeTimesOut ==
    /\ connectStatus = CONNECTING
    /\ deadlinePassed
    /\ MicrotasksDrained
    /\ Settle(FAILED)

(***************************************************************************)
(* The channel pool and the RPC call contract: acquire, invoke, release    *)
(* with valid = ~error.                                                    *)
(***************************************************************************)
Live(pl) == pl.idle \cup pl.borrowed

\* The channels acquire() may return: an idle one, or a new one when none is
\* idle and the pool is below its bound.
Acquirable(pl) ==
    IF pl.idle # {} THEN pl.idle
    ELSE IF Cardinality(Live(pl)) < MaxChannels /\ pl.created < MaxCreated
    THEN {pl.created + 1}
    ELSE {}

PoolAcquire(pl, ch) ==
    [pl EXCEPT !.idle = pl.idle \ {ch},
               !.borrowed = pl.borrowed \cup {ch},
               !.created = IF ch > pl.created THEN ch ELSE pl.created]

\* PoolRelease that ignores the valid flag.
PoolRelease_IgnoresValid(pl, ch, valid) ==
    [pl EXCEPT !.borrowed = pl.borrowed \ {ch}, !.idle = pl.idle \cup {ch}]

\* release(channel, valid): back to the idle set when valid, destroyed
\* otherwise.
PoolRelease(pl, ch, valid) ==
    IF valid
    THEN [pl EXCEPT !.borrowed = pl.borrowed \ {ch}, !.idle = pl.idle \cup {ch}]
    ELSE [pl EXCEPT !.borrowed = pl.borrowed \ {ch},
                    !.destroyed = pl.destroyed \cup {ch}]

Acquire(c) ==
    /\ rpc[c].pc = "idle"
    /\ \E ch \in Acquirable(pool) :
          /\ pool' = PoolAcquire(pool, ch)
          /\ rpc' = [rpc EXCEPT ![c] = [pc |-> "calling", ch |-> ch,
                                        error |-> FALSE]]
    /\ UNCHANGED <<client, connVars, gate, joiners, broken>>

RpcCompletes(c, error) ==
    /\ rpc[c].pc = "calling"
    /\ rpc' = [rpc EXCEPT ![c].pc = "responded", ![c].error = error]
    /\ UNCHANGED <<client, connVars, gate, joiners, pool, broken>>

Release(c) ==
    /\ rpc[c].pc = "responded"
    /\ pool' = PoolRelease(pool, rpc[c].ch, ~rpc[c].error)
    /\ broken' = IF rpc[c].error THEN broken \cup {rpc[c].ch} ELSE broken
    /\ rpc' = [rpc EXCEPT ![c] = IdleRpc]
    /\ UNCHANGED <<client, connVars, gate, joiners>>

(***************************************************************************)
(* Specifications.                                                         *)
(***************************************************************************)

\* The base client on its own: construction and the gate.
Next ==
    \/ \E cfg \in Configs, fs \in FsCases : ConstructWithConfig(cfg, fs)
    \/ \E a \in Addresses, ssl \in SslFlags, fs \in FsCases :
           ConstructWithAddress(a, ssl, fs)
    \/ \E m \in Messages, c \in BOOLEAN : GateCall(m, c)
    \/ GateResume

Spec == Init /\ [][Next]_vars

\* A constructed client with its connection state machine and the gate.
ConnConfigs ==
    {[address |-> Addr(<<"h", ":", "1">>), ssl |-> "false", tls |-> NoTls,
      protoFilePath |-> NoProtoFilePath, timeout |-> TimeoutUndefined],
     [address |-> Addr(<<"h", "t", "t", "p", "s", ":", "/", "/", "h">>),
      ssl |-> "undefined", tls |-> Tls("ca.pem", Undef, Undef),
      protoFilePath |-> NoProtoFilePath, timeout |-> TimeoutToken(1, "s")]}

InitConnected ==
    /\ client \in {NewClient(cfg, AllFilesOk) : cfg \in ConnConfigs}
    /\ InitConn
    /\ InitPool

Statuses == {CONNECTED, UNIMPLEMENTED, FAILED}

NextConn ==
    \/ \E j \in Joiners : EnsureConnected(j)
    \/ \E j \in Joiners : JoinResume(j)
    \/ \E r \in Statuses : HandshakeResponds(r)
    \/ DeadlineReached
    \/ HandshakeTimesOut
    \/ \E m \in Messages, c \in BOOLEAN : GateCall(m, c)
    \/ GateResume

SpecConn == InitConnected /\ [][NextConn]_vars

\* The channel pool under the RPC call contract.
NextPool ==
    \/ \E c \in RpcCallers : Acquire(c)
    \/ \E c \in RpcCallers, e \in BOOLEAN : RpcCompletes(c, e)
    \/ \E c \in RpcCallers : Release(c)

SpecPool == InitConnected /\ [][NextPool]_vars

\* The connection state machine under the scheduling the event loop gives:
\* time passes, an expired deadline is acted on, and the continuation of an
\* await on a settled promise runs.  The server need not answer and callers
\* need not call.
SpecConnFair ==
    /\ SpecConn
    /\ WF_vars(DeadlineReached)
    /\ WF_vars(HandshakeTimesOut)
    /\ WF_vars(GateResume)
    /\ \A j \in Joiners : WF_vars(JoinResume(j))

(***************************************************************************)
(* Properties of the constructor (specification Spec).                     *)
(***************************************************************************)
SecureScheme(cfg) == StartsWith(cfg.address.s, HttpsPrefix)
RootCertPresent(cfg) == cfg.tls.given /\ TruthyStr(cfg.tls.rootCertPath)

\* C1: a constructed client (its address is non-empty) has mode TwoWay when
\* tls.rootCertPath is present, whatever the address scheme and the ssl
\* flag; otherwise OneWay when the address starts with 'https://' or the
\* ssl flag is set; otherwise Disabled.
C1_ModeSelection ==
    client.state = "ok" =>
        /\ TruthyAddr(client.config.address)
        /\ client.tlsMode =
              IF RootCertPresent(client.config) THEN TLS_TWO_WAY
              ELSE IF SecureScheme(client.config) \/ client.config.ssl = "true"
                   THEN TLS_ONE_WAY
                   ELSE TLS_DISABLED

\* A client built for a plain address with ssl = false and a root
\* certificate is TwoWay.
C1_Witness ==
    /\ client.state = "ok"
    /\ ~SecureScheme(client.config)
    /\ client.config.ssl = "false"
    /\ client.config.tls.rootCertPath = "ca.pem"
    /\ client.tlsMode = TLS_TWO_WAY

ValidConfigs == {cfg \in Configs : TruthyAddr(cfg.address)}

\* C2 as stated: the mode of the client is the mode of every valid
\* configuration that agrees with its own on the secure scheme, on the ssl
\* flag and on whether a TLS block is given.
C2_FunctionOfTlsBlockPresence ==
    client.state = "ok" =>
        \A other \in ValidConfigs :
            ( /\ SecureScheme(other) = SecureScheme(client.config)
              /\ other.ssl = client.config.ssl
              /\ other.tls.given = client.config.tls.given )
            => TlsModeOf(other) = client.tlsMode

\* The mode of the client is the mode of every valid configuration that
\* agrees with its own on the secure scheme, on the truth of the ssl flag and
\* on whether the TLS block carries a non-empty rootCertPath.
ModeIsFunctionOfRootCert ==
    client.state = "ok" =>
        \A other \in ValidConfigs :
            ( /\ SecureScheme(other) = SecureScheme(client.config)
              /\ TruthyBool(other.ssl) = TruthyBool(client.config.ssl)
              /\ RootCertPresent(other) = RootCertPresent(client.config) )
            => TlsModeOf(other) = client.tlsMode

\* Once constructed, the client keeps its mode and its configuration.
ModeNeverChanges ==
    client.state = "ok" =>
        /\ client'.state = "ok"
        /\ client'.tlsMode = client.tlsMode
        /\ client'.config = client.config

\* C2 as stated, with the mode never changing after construction.
C2_AsStated == []C2_FunctionOfTlsBlockPresence /\ [][ModeNeverChanges]_vars

\* C2, amended: the security mode is a function of (secure scheme, ssl flag,
\* presence of a non-empty rootCertPath in the TLS block), and the mode of a
\* constructed client never changes afterwards.
C2_ModeIsFunction == []ModeIsFunctionOfRootCert /\ [][ModeNeverChanges]_vars

\* A client whose TLS block carries no root certificate stays Disabled, also
\* after a call of the gate.
C2_Witness ==
    /\ client.state = "ok"
    /\ client.config.tls.given
    /\ ~RootCertPresent(client.config)
    /\ client.tlsMode = TLS_DISABLED
    /\ gate.pc = "done"

\* C3: construction with a missing or empty address fails with the
\* configuration error before any file is read and before any network I/O,
\* and leaves no client.
C3_MissingAddressFailsFirst ==
    (client.state # "none" /\ ~TruthyAddr(client.config.address)) =>
        /\ client.state = "threw"
        /\ client.error = MILVUS_ADDRESS_IS_REQUIRED
        /\ client.io = <<>>
        /\ handshakes = 0
        /\ pool.created = 0
        /\ gate.pc = "idle"

\* Construction with the empty string as the address has thrown.
C3_Witness ==
    /\ client.state = "threw"
    /\ client.config.address = Addr(<<>>)
    /\ client.error = MILVUS_ADDRESS_IS_REQUIRED
    /\ client.io = <<>>

(***************************************************************************)
(* Properties of the gate and the connection state machine (specification  *)
(* SpecConn).                                                              *)
(***************************************************************************)

\* C4: a gate call made after a handshake has resolved to Unimplemented
\* fails, when it has no checker, with the incompatibility error carrying the
\* caller's message if one is given and the default message otherwise; with
\* a checker it calls the checker exactly once, returns its result and does
\* not fail.
C4_UnimplementedGate ==
    ( /\ gate.pc = "done"
      /\ gate.status = UNIMPLEMENTED ) =>
        IF gate.checker
        THEN /\ gate.outcome = "checker result"
             /\ gate.checkerCalls = 1
             /\ gate.error = ""
        ELSE /\ gate.outcome = "incompatible"
             /\ gate.checkerCalls = 0
             /\ gate.error = IF gate.message \in {Undef, ""}
                             THEN DefaultIncompatibleMessage
                             ELSE gate.message

\* A call with a message and no checker, made after the handshake resolved to
\* Unimplemented, has failed with that message.
C4_Witness ==
    /\ gate.pc = "done"
    /\ gate.awaiting = 0
    /\ gate.status = UNIMPLEMENTED
    /\ ~gate.checker
    /\ gate.message = "custom message"
    /\ gate.error = "custom message"

\* C5: a gate call that completes while the status is Failed ends with the
\* underlying connection failure.
C5_FailedPropagates ==
    (gate.pc = "done" /\ gate.status = FAILED) =>
        gate.outcome = "connection failure"

GateStep == gate' # gate

\* C6: with the status Connected, a gate call returns normally without
\* calling the checker, and no step of it changes the connection status, the
\* shared connect handle or the client (its security mode included).
C6_ConnectedGateIsNoOp ==
    [][ (GateStep /\ connectStatus = CONNECTED) =>
            /\ connectStatus' = connectStatus
            /\ connectPromise' = connectPromise
            /\ promises' = promises
            /\ client' = client
            /\ gate'.pc = "done" =>
                  /\ gate'.outcome = "returned"
                  /\ gate'.checkerCalls = 0
                  /\ gate'.error = "" ]_vars

\* A call with a checker has returned normally on a Connected client.
C6_Witness ==
    /\ gate.pc = "done"
    /\ gate.status = CONNECTED
    /\ gate.checker
    /\ gate.outcome = "returned"
    /\ client.tlsMode = TLS_TWO_WAY

Pending == {p \in PromiseIds : promises[p] = "pending"}

\* C7: at most one handshake is in flight, one handshake RPC is issued for all
\* callers of ensureConnected that call before it completes, these callers
\* wait on the same handle, and callers that called before the same
\* completion observe the same status.
C7_SingleFlight ==
    /\ Cardinality(Pending) <= 1
    /\ handshakes = Completed + Cardinality(Pending)
    /\ \A j \in Joiners :
          (joiners[j].pc = "await" /\ joiners[j].awaiting \in Pending)
              => joiners[j].awaiting = connectPromise
    /\ \A i, j \in Joiners :
          ( /\ joiners[i].pc = "done"
            /\ joiners[j].pc = "done"
            /\ joiners[i].gen = joiners[j].gen )
              => joiners[i].status = joiners[j].status

\* Two callers that called before the first handshake completed have both
\* observed Unimplemented, and one handshake was issued.
C7_Witness ==
    /\ \A j \in Joiners :
          /\ joiners[j].pc = "done"
          /\ joiners[j].gen = 0
          /\ joiners[j].awaiting = 1
          /\ joiners[j].status = UNIMPLEMENTED
    /\ handshakes = 1

\* What a gate call ends with when the handshake it waited for settled to
\* the given status.
ExpectedOutcome(status, checker) ==
    CASE status = FAILED -> "connection failure"
      [] status = UNIMPLEMENTED ->
            IF checker THEN "checker result" ELSE "incompatible"
      [] OTHER -> "returned"

GateWaitsForSettle ==
    (gate.pc = "await" /\ gate.awaiting \in Pending) => gate'.pc = "await"

GateDecidedAfterSettle ==
    (gate.pc = "done" /\ gate.awaiting >= 1) =>
        /\ gate.status # CONNECTING \/ gate.outcome = "connection failure"
        /\ gate.outcome = ExpectedOutcome(settled[gate.awaiting], gate.checker)

\* C9: a gate call made while a handshake is in flight does not complete
\* before that handshake has settled, and it ends as the status the handshake
\* settled to decides.
C9_GateAwaitsHandshake == []GateDecidedAfterSettle /\ [][GateWaitsForSettle]_vars

\* A call made during the handshake has called its checker after the
\* handshake settled to Unimplemented.
C9_Witness ==
    /\ gate.pc = "done"
    /\ gate.awaiting = 1
    /\ settled[1] = UNIMPLEMENTED
    /\ gate.outcome = "checker result"

(***************************************************************************)
(* The connect timeout (specification SpecConnFair).                       *)
(***************************************************************************)
TimeoutMarksFailed ==
    (connectStatus = CONNECTING /\ deadlinePassed /\ connectStatus' # CONNECTING)
        => /\ connectStatus' = FAILED
           /\ promises'[connectPromise] = "rejected"

\* C10: a handshake that has reached its deadline is marked Failed and its
\* handle is rejected; the status never stays Connecting forever, and every
\* caller waiting on a handshake, a gate call included, eventually resumes.
C10_TimeoutEndsConnecting ==
    /\ [][TimeoutMarksFailed]_vars
    /\ (connectStatus = CONNECTING) ~> (connectStatus # CONNECTING)
    /\ (gate.pc = "await") ~> (gate.pc = "done")
    /\ \A j \in Joiners : (joiners[j].pc = "await") ~> (joiners[j].pc = "done")

\* A handshake has timed out, and the gate call and the caller that waited
\* for it have resumed with the failure.
C10_Witness ==
    /\ connectStatus = FAILED
    /\ deadlinePassed
    /\ gate.pc = "done"
    /\ gate.awaiting = handshakes
    /\ gate.outcome = "connection failure"
    /\ \E j \in Joiners :
          /\ joiners[j].pc = "done"
          /\ joiners[j].awaiting = handshakes
          /\ joiners[j].status = FAILED

(***************************************************************************)
(* The channel pool (specification SpecPool).                              *)
(***************************************************************************)

\* C8: a channel released with valid = false is never held by a caller again
\* and is never idle in the pool.
C8_BrokenNeverReturned ==
    /\ \A c \in RpcCallers : rpc[c].pc # "idle" => rpc[c].ch \notin broken
    /\ broken \cap pool.idle = {}

\* Two channels were released as broken and a caller holds a third one.
C8_Witness ==
    /\ broken = {1, 2}
    /\ \E c \in RpcCallers : rpc[c].pc = "calling" /\ rpc[c].ch = 3

====
